---- MODULE Spec2Model ----
(***************************************************************************)
(* Constant-product bonding curve with virtual reserves (src/src/curve.rs). *)
(*                                                                         *)
(* Amounts are unsigned integers of a fixed width (u128 in the source) and *)
(* the intermediate math of Curve::new runs in a type of twice that width  *)
(* (U256).  The model keeps that relation at a width TLC can enumerate:    *)
(* amounts range over 0..MaxAmount and wide values over 0..WideMax with    *)
(* WideMax + 1 = (MaxAmount + 1)^2.                                        *)
(***************************************************************************)
EXTENDS Integers, Sequences, FiniteSets, TLC

\* Largest amount (u128::MAX in the source), scaled down.
MaxAmount == 15
\* Longest batch handed to simulate_mints.
MaxMints == 2
\* Largest quote amount inside a batch handed to simulate_mints.
MaxBatchQuote == 3
\* Cap on the total quote paid in one threaded purchase history.
MaxPaid == 8

\* Largest wide value (U256::MAX): twice the width of an amount.
WideMax == (MaxAmount + 1) * (MaxAmount + 1) - 1

Amount == 0..MaxAmount

\* Result<T, CurveError>
Ok(v) == [ok |-> TRUE, val |-> v]
Err(e) == [ok |-> FALSE, err |-> e]
\* An integer division by zero aborts the call.
Panic == [ok |-> FALSE, err |-> "Panic"]
IsErr(r, e) == (~r.ok) /\ r.err = e

Min(a, b) == IF a < b THEN a ELSE b
\* u128::saturating_sub
saturating_sub(a, b) == IF a > b THEN a - b ELSE 0
\* u128::saturating_add
saturating_add(a, b) == IF a + b > MaxAmount THEN MaxAmount ELSE a + b
\* u128::checked_add
checked_add(a, b) == IF a + b > MaxAmount THEN Err("Overflow") ELSE Ok(a + b)
\* u128::checked_sub
checked_sub(a, b) == IF a < b THEN Err("Underflow") ELSE Ok(a - b)

(***************************************************************************)
(* Widening arithmetic                                                     *)
(***************************************************************************)
\* Mutant: the overflow flag of the wide product is ignored (it wraps).
mul_u256_wrapping(a, b) == Ok((a * b) % (WideMax + 1))

mul_u256(a, b) ==
    IF a * b > WideMax THEN Err("InvalidConfig") ELSE Ok(a * b)

\* Mutant: the narrowing keeps the low half and drops the high half unchecked.
narrow_u256_truncating(value) == Ok(value % (MaxAmount + 1))

narrow_u256(value) ==
    IF value > MaxAmount THEN Err("InvalidConfig") ELSE Ok(value)

(***************************************************************************)
(* Curve::new                                                              *)
(***************************************************************************)
new(cfg) ==
    LET total_supply == cfg.total_supply
        sellable_tokens == cfg.sell_amount
        vt == cfg.vt
        mc == cfg.mc_target_sats
    IN
    IF total_supply = 0 \/ sellable_tokens = 0 \/ vt = 0 \/ mc = 0
    THEN Err("InvalidConfig")
    ELSE
    LET ry0 == checked_add(vt, sellable_tokens) IN
    IF ~ry0.ok THEN Err("InvalidConfig") ELSE
    LET y0 == ry0.val
        vt_sq == mul_u256(vt, vt)
    IN
    IF ~vt_sq.ok THEN vt_sq ELSE
    LET num == mul_u256(mc, vt_sq.val) IN
    IF ~num.ok THEN num ELSE
    LET den == mul_u256(y0, total_supply) IN
    IF ~den.ok THEN den ELSE
    IF den.val = 0 THEN Err("InvalidConfig") ELSE
    LET rx0 == narrow_u256(num.val \div den.val) IN
    IF ~rx0.ok THEN rx0 ELSE
    LET x0 == rx0.val IN
    IF x0 = 0 THEN Err("InvalidConfig") ELSE
    LET wk == mul_u256(x0, y0) IN
    IF ~wk.ok THEN wk ELSE
    LET rk == narrow_u256(wk.val) IN
    IF ~rk.ok THEN rk ELSE
    Ok([total_supply |-> total_supply,
        sell_amount |-> sellable_tokens,
        vt |-> vt,
        y0 |-> y0,
        x0 |-> x0,
        k |-> rk.val])

(***************************************************************************)
(* Reserve function                                                        *)
(***************************************************************************)
\* Mutant: the reserve ignores the step (always the reserve of step 0).
y_at_ignoring_step(c, step) ==
    IF step > c.sell_amount THEN Err("OutOfRange") ELSE Ok(c.vt + c.sell_amount)

y_at(c, step) ==
    IF step > c.sell_amount THEN Err("OutOfRange") ELSE
    LET remaining == checked_sub(c.sell_amount, step) IN
    IF ~remaining.ok THEN Err("OutOfRange") ELSE
    LET y == checked_add(c.vt, remaining.val) IN
    IF ~y.ok THEN Err("InvalidConfig") ELSE Ok(y.val)

\* X = floor(k / Y); dividing by zero aborts.
x_from_y(c, y) == IF y = 0 THEN Panic ELSE Ok(c.k \div y)

snapshot(c, step) ==
    LET y == y_at(c, step) IN
    IF ~y.ok THEN y ELSE
    LET x == x_from_y(c, y.val) IN
    IF ~x.ok THEN x ELSE
    Ok([step |-> step, x |-> x.val, y |-> y.val])

(***************************************************************************)
(* Forward fill                                                            *)
(***************************************************************************)
\* Mutant: Y' is not floored at vt, so a purchase can eat the virtual reserve.
mint_no_floor(c, step, sats_in) ==
    IF sats_in = 0 THEN Err("ZeroInput") ELSE
    LET y == y_at(c, step) IN
    IF ~y.ok THEN y ELSE
    LET x == x_from_y(c, y.val) IN
    IF ~x.ok THEN x ELSE
    LET x2 == checked_add(x.val, sats_in) IN
    IF ~x2.ok THEN Err("InvalidConfig") ELSE
    IF x2.val = 0 THEN Panic ELSE
    LET y_prime == c.k \div x2.val
        dy == saturating_sub(y.val, y_prime)
        new_step == Min(saturating_add(step, dy), c.sell_amount)
    IN Ok(<<new_step, dy>>)

\* Mutant: X' = X + sats_in wraps around instead of failing on overflow.
mint_wrapping_add(c, step, sats_in) ==
    IF sats_in = 0 THEN Err("ZeroInput") ELSE
    LET y == y_at(c, step) IN
    IF ~y.ok THEN y ELSE
    LET x == x_from_y(c, y.val) IN
    IF ~x.ok THEN x ELSE
    LET x2 == (x.val + sats_in) % (MaxAmount + 1) IN
    IF x2 = 0 THEN Panic ELSE
    LET y_raw == c.k \div x2
        y_prime == IF y_raw < c.vt THEN c.vt ELSE y_raw
        dy == saturating_sub(y.val, y_prime)
        new_step == Min(saturating_add(step, dy), c.sell_amount)
    IN Ok(<<new_step, dy>>)

\* Mutant: the step is validated before the zero-input check.
mint_step_checked_first(c, step, sats_in) ==
    LET y == y_at(c, step) IN
    IF ~y.ok THEN y ELSE
    IF sats_in = 0 THEN Err("ZeroInput") ELSE
    LET x == x_from_y(c, y.val) IN
    IF ~x.ok THEN x ELSE
    LET x2 == checked_add(x.val, sats_in) IN
    IF ~x2.ok THEN Err("InvalidConfig") ELSE
    IF x2.val = 0 THEN Panic ELSE
    LET y_raw == c.k \div x2.val
        y_prime == IF y_raw < c.vt THEN c.vt ELSE y_raw
        dy == saturating_sub(y.val, y_prime)
        new_step == Min(saturating_add(step, dy), c.sell_amount)
    IN Ok(<<new_step, dy>>)

\* mint(step, sats_in) -> Ok(<<new_step, tokens_out>>) or an error.
mint(c, step, sats_in) ==
    IF sats_in = 0 THEN Err("ZeroInput") ELSE
    LET y == y_at(c, step) IN
    IF ~y.ok THEN y ELSE
    LET x == x_from_y(c, y.val) IN
    IF ~x.ok THEN x ELSE
    LET x2 == checked_add(x.val, sats_in) IN
    IF ~x2.ok THEN Err("InvalidConfig") ELSE
    IF x2.val = 0 THEN Panic ELSE
    LET y_raw == c.k \div x2.val
        y_prime == IF y_raw < c.vt THEN c.vt ELSE y_raw
        dy == saturating_sub(y.val, y_prime)
        new_step == Min(saturating_add(step, dy), c.sell_amount)
    IN Ok(<<new_step, dy>>)

asset_out_given_quote_in(c, step, quote_in) ==
    LET r == mint(c, step, quote_in) IN
    IF ~r.ok THEN r ELSE Ok(r.val[2])

(***************************************************************************)
(* Inverse fill                                                            *)
(***************************************************************************)
RECURSIVE search_loop_upper_bound(_, _, _, _, _)
\* Mutant: the search keeps hi only on a strictly larger fill (upper bound).
search_loop_upper_bound(c, step, asset_out, lo, hi) ==
    IF ~(lo < hi) THEN Ok(lo) ELSE
    LET mid == lo + (hi - lo) \div 2
        out == asset_out_given_quote_in(c, step, mid)
    IN
    IF ~out.ok THEN out ELSE
    IF out.val > asset_out
    THEN search_loop_upper_bound(c, step, asset_out, lo, mid)
    ELSE search_loop_upper_bound(c, step, asset_out, mid + 1, hi)

RECURSIVE search_loop(_, _, _, _, _)
\* The while loop of quote_in_given_asset_out, from the state (lo, hi).
search_loop(c, step, asset_out, lo, hi) ==
    IF ~(lo < hi) THEN Ok(lo) ELSE
    LET mid == lo + (hi - lo) \div 2
        out == asset_out_given_quote_in(c, step, mid)
    IN
    IF ~out.ok THEN out ELSE
    IF out.val >= asset_out
    THEN search_loop(c, step, asset_out, lo, mid)
    ELSE search_loop(c, step, asset_out, mid + 1, hi)

quote_in_given_asset_out(c, step, asset_out) ==
    IF asset_out = 0 THEN Ok(0) ELSE
    LET y == y_at(c, step) IN
    IF ~y.ok THEN y ELSE
    LET max_tokens == saturating_sub(y.val, c.vt) IN
    IF asset_out > max_tokens THEN Err("ExceedsPool") ELSE
    LET x == x_from_y(c, y.val) IN
    IF ~x.ok THEN x ELSE
    IF c.vt = 0 THEN Panic ELSE
    LET x_final == c.k \div c.vt
        max_quote == checked_sub(x_final, x.val)
    IN
    IF ~max_quote.ok THEN Err("InvalidConfig") ELSE
    IF max_quote.val = 0 THEN Err("ExceedsPool") ELSE
    search_loop(c, step, asset_out, 1, max_quote.val)

(***************************************************************************)
(* Batch simulation                                                        *)
(***************************************************************************)
RECURSIVE simulate_loop_pushing_new_step(_, _, _, _, _)
\* Mutant: the collected pair holds the step after the mint, not before it.
simulate_loop_pushing_new_step(c, mints, i, current_step, results) ==
    IF i > Len(mints) THEN Ok(results) ELSE
    LET r == mint(c, current_step, mints[i]) IN
    IF ~r.ok THEN r ELSE
    simulate_loop_pushing_new_step(c, mints, i + 1, r.val[1],
                                   Append(results, <<r.val[1], r.val[2]>>))

RECURSIVE simulate_loop(_, _, _, _, _)
\* The for loop of simulate_mints, about to process mints[i].
simulate_loop(c, mints, i, current_step, results) ==
    IF i > Len(mints) THEN Ok(results) ELSE
    LET r == mint(c, current_step, mints[i]) IN
    IF ~r.ok THEN r ELSE
    simulate_loop(c, mints, i + 1, r.val[1],
                  Append(results, <<current_step, r.val[2]>>))

simulate_mints(c, mints) == simulate_loop(c, mints, 1, 0, <<>>)

(***************************************************************************)
(* Analytics                                                               *)
(***************************************************************************)
cumulative_quote_to_step(c, step) ==
    LET snap == snapshot(c, step) IN
    IF ~snap.ok THEN snap ELSE Ok(saturating_sub(snap.val.x, c.x0))

total_raise_sats(c) ==
    IF c.vt = 0 THEN Panic ELSE Ok(saturating_sub(c.k \div c.vt, c.x0))

(***************************************************************************)
(* State: a configuration, the result of Curve::new on it, the last call   *)
(* made on the curve, and the step a caller threads through its purchases  *)
(* together with what that caller has paid and received so far.            *)
(*                                                                         *)
(* A Curve is immutable and every method is a function of the curve and    *)
(* its arguments alone, so a behaviour of Spec observes one call, with any *)
(* arguments, on a freshly constructed curve.                              *)
(***************************************************************************)
VARIABLES cfg, curve, last, step, sold, paid

vars == <<cfg, curve, last, step, sold, paid>>

CurveConfig ==
    [total_supply : Amount, sell_amount : Amount, vt : Amount,
     mc_target_sats : Amount]

\* Batches of at most MaxMints quote amounts.
MintBatches == UNION {[1..n -> 0..MaxBatchQuote] : n \in 0..MaxMints}

\* No method has been called on the curve yet.
Fresh == last.op = "new"

Init ==
    /\ cfg \in CurveConfig
    /\ curve = new(cfg)
    /\ last = [op |-> "new"]
    /\ step = 0
    /\ sold = 0
    /\ paid = 0

CallSnapshot ==
    /\ curve.ok
    /\ Fresh
    /\ \E s \in Amount :
         last' = [op |-> "snapshot", step |-> s, res |-> snapshot(curve.val, s)]
    /\ UNCHANGED <<cfg, curve, step, sold, paid>>

CallMint ==
    /\ curve.ok
    /\ Fresh
    /\ \E s \in Amount, q \in Amount :
         last' = [op |-> "mint", step |-> s, sats_in |-> q,
                  res |-> mint(curve.val, s, q)]
    /\ UNCHANGED <<cfg, curve, step, sold, paid>>

CallAssetOutGivenQuoteIn ==
    /\ curve.ok
    /\ Fresh
    /\ \E s \in Amount, q \in Amount :
         last' = [op |-> "asset_out_given_quote_in", step |-> s, quote_in |-> q,
                  res |-> asset_out_given_quote_in(curve.val, s, q)]
    /\ UNCHANGED <<cfg, curve, step, sold, paid>>

CallQuoteInGivenAssetOut ==
    /\ curve.ok
    /\ Fresh
    /\ \E s \in Amount, a \in Amount :
         last' = [op |-> "quote_in_given_asset_out", step |-> s, asset_out |-> a,
                  res |-> quote_in_given_asset_out(curve.val, s, a)]
    /\ UNCHANGED <<cfg, curve, step, sold, paid>>

CallSimulateMints ==
    /\ curve.ok
    /\ Fresh
    /\ \E ms \in MintBatches :
         last' = [op |-> "simulate_mints", mints |-> ms,
                  res |-> simulate_mints(curve.val, ms)]
    /\ UNCHANGED <<cfg, curve, step, sold, paid>>

\* A caller buys with q at the step it tracks and, when the mint succeeds,
\* carries the returned new_step into its next call.  A failed call leaves
\* the tracked step untouched.
Buy ==
    /\ curve.ok
    /\ \E q \in Amount :
         /\ paid + q <= MaxPaid
         /\ LET r == mint(curve.val, step, q) IN
            /\ last' = [op |-> "mint", step |-> step, sats_in |-> q, res |-> r]
            /\ step' = IF r.ok THEN r.val[1] ELSE step
            /\ sold' = IF r.ok THEN sold + r.val[2] ELSE sold
            /\ paid' = IF r.ok THEN paid + q ELSE paid
    /\ UNCHANGED <<cfg, curve>>

\* Single calls on arbitrary arguments.
Next ==
    \/ CallSnapshot
    \/ CallMint
    \/ CallAssetOutGivenQuoteIn
    \/ CallQuoteInGivenAssetOut
    \/ CallSimulateMints

Spec == Init /\ [][Next]_vars

\* A purchase history threaded from step 0.
NextThread == Buy

SpecThread == Init /\ [][NextThread]_vars

(***************************************************************************)
(* Properties                                                              *)
(***************************************************************************)
\* The constructed curve (meaningful where curve.ok).
C == curve.val

\* C1: whenever quote_in_given_asset_out(step, asset_out) returns Ok(q) for
\* step <= sell_amount and 1 <= asset_out <= y_at(step) - vt, the forward fill
\* asset_out_given_quote_in(step, q) returns Ok(out) with out >= asset_out.
C1_InverseSolveFeasible ==
    (/\ curve.ok
     /\ last.op = "quote_in_given_asset_out"
     /\ last.step <= C.sell_amount
     /\ last.asset_out >= 1
     /\ last.asset_out <= y_at(C, last.step).val - C.vt
     /\ last.res.ok)
    => LET out == asset_out_given_quote_in(C, last.step, last.res.val)
       IN out.ok /\ out.val >= last.asset_out

\* C2: whenever quote_in_given_asset_out(step, asset_out) returns Ok(q) with
\* q >= 2 (step <= sell_amount, asset_out >= 1), the quote q - 1 buys strictly
\* less than asset_out.
C2_InverseSolveMinimal ==
    (/\ curve.ok
     /\ last.op = "quote_in_given_asset_out"
     /\ last.step <= C.sell_amount
     /\ last.asset_out >= 1
     /\ last.res.ok
     /\ last.res.val >= 2)
    => LET out == asset_out_given_quote_in(C, last.step, last.res.val - 1)
       IN out.ok /\ out.val < last.asset_out

\* C2 witness: a search from a step inside the curve that settled on a quote
\* of at least 3 which does buy the requested amount.
C2_Witness ==
    /\ curve.ok
    /\ last.op = "quote_in_given_asset_out"
    /\ last.step > 0
    /\ last.step < C.sell_amount
    /\ last.asset_out >= 2
    /\ last.res.ok
    /\ last.res.val >= 3
    /\ asset_out_given_quote_in(C, last.step, last.res.val).val >= last.asset_out

\* C3: along a purchase history threaded from step 0 the running step equals
\* the sum of all asset_out returned so far, that sum never exceeds
\* sell_amount, and each asset_out equals snapshot(step).y - snapshot(new_step).y.
C3_TokenConservation ==
    curve.ok =>
        /\ step = sold
        /\ sold <= C.sell_amount
        /\ (last.op = "mint" /\ last.res.ok) =>
               last.res.val[2] = snapshot(C, last.step).val.y
                                 - snapshot(C, last.res.val[1]).val.y

\* C3 witness: a later purchase of the history, starting inside the curve,
\* that buys tokens and sells the curve out.
C3_Witness ==
    /\ curve.ok
    /\ last.op = "mint"
    /\ last.res.ok
    /\ last.step > 0
    /\ last.res.val[2] > 0
    /\ step = C.sell_amount
    /\ sold = C.sell_amount

\* C4 (as stated): mint(sell_amount, q) returns Ok((sell_amount, 0)) for any
\* non-zero q in the amount range.
C4_SoldOutMintAlwaysOk ==
    (/\ curve.ok
     /\ last.op = "mint"
     /\ last.step = C.sell_amount
     /\ last.sats_in /= 0)
    => (last.res.ok /\ last.res.val = <<C.sell_amount, 0>>)

\* C4 (amended): mint(sell_amount, q) returns Ok((sell_amount, 0)) for any
\* non-zero q for which floor(k / vt) + q fits in the amount width.
C4_SoldOutMintWithinWidth ==
    (/\ curve.ok
     /\ last.op = "mint"
     /\ last.step = C.sell_amount
     /\ last.sats_in /= 0
     /\ (C.k \div C.vt) + last.sats_in <= MaxAmount)
    => (last.res.ok /\ last.res.val = <<C.sell_amount, 0>>)

\* C4 witness: a successful mint on a sold-out curve whose raw Y' falls below
\* the virtual reserve.
C4_Witness ==
    /\ curve.ok
    /\ last.op = "mint"
    /\ last.step = C.sell_amount
    /\ last.sats_in >= 2
    /\ last.res.ok
    /\ C.k \div ((C.k \div C.vt) + last.sats_in) < C.vt

\* C5: for step <= sell_amount and 1 <= q1 <= q2 with both calls succeeding,
\* asset_out_given_quote_in(step, q1) <= asset_out_given_quote_in(step, q2).
C5_ForwardFillMonotone ==
    (/\ curve.ok
     /\ last.op = "asset_out_given_quote_in"
     /\ last.step <= C.sell_amount
     /\ last.res.ok)
    => \A q1 \in 1..last.quote_in :
           LET out1 == asset_out_given_quote_in(C, last.step, q1)
           IN out1.ok => out1.val <= last.res.val

\* C5 witness: a fill for which a smaller quote buys strictly fewer, but some,
\* tokens.
C5_Witness ==
    /\ curve.ok
    /\ last.op = "asset_out_given_quote_in"
    /\ last.step <= C.sell_amount
    /\ last.res.ok
    /\ \E q1 \in 1..last.quote_in :
           LET out1 == asset_out_given_quote_in(C, last.step, q1)
           IN out1.ok /\ out1.val > 0 /\ out1.val < last.res.val

\* C6: every curve returned by Curve::new has x0 >= 1, y0 = vt + sell_amount
\* and k = x0 * y0 exactly, and every snapshot (x, y) at a step in
\* 0..sell_amount has y >= vt > 0 and x * y <= k.
C6_InvariantPreservation ==
    curve.ok =>
        /\ C.x0 >= 1
        /\ C.y0 = C.vt + C.sell_amount
        /\ C.k = C.x0 * C.y0
        /\ (last.op = "snapshot" /\ last.step <= C.sell_amount) =>
               /\ last.res.ok
               /\ last.res.val.y >= C.vt
               /\ C.vt > 0
               /\ last.res.val.x * last.res.val.y <= C.k

\* C6 witness: a snapshot inside the curve where the floor division loses
\* part of k.
C6_Witness ==
    /\ curve.ok
    /\ last.op = "snapshot"
    /\ last.step > 0
    /\ last.step <= C.sell_amount
    /\ last.res.ok
    /\ last.res.val.x * last.res.val.y < C.k

\* C7: mint(step, q) returns ZeroInput if q = 0 (for every step); otherwise
\* OutOfRange if step > sell_amount; otherwise InvalidConfig if
\* floor(k / y_at(step)) + q exceeds the amount width; otherwise Ok.  No
\* other error is returned and no call aborts.
C7_MintErrorPrecedence ==
    (curve.ok /\ last.op = "mint") =>
        IF last.sats_in = 0 THEN IsErr(last.res, "ZeroInput")
        ELSE IF last.step > C.sell_amount THEN IsErr(last.res, "OutOfRange")
        ELSE IF (C.k \div (C.vt + C.sell_amount - last.step)) + last.sats_in
                    > MaxAmount
             THEN IsErr(last.res, "InvalidConfig")
        ELSE last.res.ok

\* C7 witness: a mint inside the curve that fails because X + q overflows.
C7_Witness ==
    /\ curve.ok
    /\ last.op = "mint"
    /\ last.step < C.sell_amount
    /\ last.sats_in > 0
    /\ IsErr(last.res, "InvalidConfig")

\* The shape of a successful batch result r for the batch ms: one pair per
\* mint, the first taken at step 0, each pair holding the asset_out of its
\* mint and the next pair starting at that mint's new_step.
ThreadedFrom0(c, ms, r) ==
    /\ Len(r) = Len(ms)
    /\ Len(ms) > 0 => r[1][1] = 0
    /\ \A i \in 1..Len(ms) :
           LET m == mint(c, r[i][1], ms[i]) IN
           /\ m.ok
           /\ r[i][2] = m.val[2]
           /\ i < Len(ms) => r[i + 1][1] = m.val[1]

\* The batch ms fails at position j with the error e: the mints before j
\* succeed when threaded from step 0 and the j-th mint, at the step they
\* lead to, returns e.
FirstFailureAt(c, ms, j, e) ==
    LET before == SubSeq(ms, 1, j - 1)
        p == simulate_mints(c, before)
    IN /\ p.ok
       /\ ThreadedFrom0(c, before, p.val)
       /\ LET s == IF j = 1 THEN 0
                   ELSE mint(c, p.val[j - 1][1], ms[j - 1]).val[1]
              m == mint(c, s, ms[j])
          IN (~m.ok) /\ m.err = e

\* C8: simulate_mints(mints) returns Ok(r) iff every mint succeeds when
\* threaded from step 0, and then r lists (step before, asset_out) per mint;
\* otherwise the result is exactly the error of the first failing mint.
C8_SimulateMatchesThreading ==
    (curve.ok /\ last.op = "simulate_mints") =>
        IF last.res.ok
        THEN ThreadedFrom0(C, last.mints, last.res.val)
        ELSE \E j \in 1..Len(last.mints) :
                 FirstFailureAt(C, last.mints, j, last.res.err)

\* C8 witness: a batch of two whose first mint buys tokens and whose second
\* mint, threaded from the first one's new_step, fails.
C8_Witness ==
    /\ curve.ok
    /\ last.op = "simulate_mints"
    /\ Len(last.mints) = 2
    /\ ~last.res.ok
    /\ LET m1 == mint(C, 0, last.mints[1]) IN
       /\ m1.ok
       /\ m1.val[2] > 0
       /\ m1.val[1] > 0
       /\ IsErr(mint(C, m1.val[1], last.mints[2]), "InvalidConfig")

\* C9: along a purchase history threaded from step 0 the sum of the quotes
\* paid so far is at least cumulative_quote_to_step(current step), and once
\* step = sell_amount it is at least total_raise_sats().
C9_RaiseIsLowerBoundOnPaid ==
    curve.ok =>
        /\ cumulative_quote_to_step(C, step).ok
        /\ paid >= cumulative_quote_to_step(C, step).val
        /\ step = C.sell_amount => paid >= total_raise_sats(C).val

\* The exact X0 = floor(mc_target_sats * vt^2 / (y0 * total_supply)) over
\* unbounded integers.
ExactX0 ==
    (cfg.mc_target_sats * cfg.vt * cfg.vt)
        \div ((cfg.vt + cfg.sell_amount) * cfg.total_supply)

\* The configuration's derived values are representable in the amount width.
Representable ==
    /\ cfg.total_supply /= 0
    /\ cfg.sell_amount /= 0
    /\ cfg.vt /= 0
    /\ cfg.mc_target_sats /= 0
    /\ cfg.vt + cfg.sell_amount <= MaxAmount
    /\ ExactX0 >= 1
    /\ ExactX0 <= MaxAmount
    /\ ExactX0 * (cfg.vt + cfg.sell_amount) <= MaxAmount

\* C10 (as stated): Curve::new(cfg) returns Ok exactly when all four fields
\* are non-zero and y0, the exact x0 >= 1 and x0 * y0 fit in the amount width,
\* and the returned x0, y0, k are those exact values; overflow of the wide
\* product mc_target_sats * vt^2 never rejects such a configuration.
C10_NewRejectsOnlyUnrepresentable ==
    /\ curve.ok <=> Representable
    /\ curve.ok =>
           /\ C.y0 = cfg.vt + cfg.sell_amount
           /\ C.x0 = ExactX0
           /\ C.k = ExactX0 * (cfg.vt + cfg.sell_amount)

\* C10 (amended): Curve::new(cfg) returns Ok exactly when all four fields are
\* non-zero, y0, the exact x0 >= 1 and x0 * y0 fit in the amount width, and
\* the product mc_target_sats * vt^2 fits in the wide type; the returned x0,
\* y0, k are then the exact values.
C10_NewOkIffRepresentableAndWideFits ==
    /\ curve.ok <=>
           (Representable /\ cfg.mc_target_sats * cfg.vt * cfg.vt <= WideMax)
    /\ curve.ok =>
           /\ C.y0 = cfg.vt + cfg.sell_amount
           /\ C.x0 = ExactX0
           /\ C.k = ExactX0 * (cfg.vt + cfg.sell_amount)

\* C10 witness: a constructed curve whose x0 is a proper floor (the division
\* leaves a remainder) and is larger than 1.
C10_Witness ==
    /\ curve.ok
    /\ C.x0 >= 2
    /\ (cfg.mc_target_sats * cfg.vt * cfg.vt) % (C.y0 * cfg.total_supply) /= 0

====
